---- MODULE Spec2Model ----
(***************************************************************************)
(* Client management application: the json-server backed record store with *)
(* its custom soft-delete route (server.js), the REST helpers of the       *)
(* browser application (services/api.js) and the create/edit form          *)
(* (pages/ClientFormPage.js).                                              *)
(*                                                                         *)
(* Timestamps are instants of one clock, counted in ticks; a record is a   *)
(* function from field names to values, and a field that the stored JSON   *)
(* object does not have is simply not in the record's DOMAIN.              *)
(***************************************************************************)
EXTENDS Integers, Sequences, FiniteSets, TLC

\* ------------------------------------------------------------------ bounds

\* The clock runs from 0 to MaxTime and then stands still.
MaxTime == 1
\* The number of field edits (handleChange events) the user makes in a run.
MaxChanges == 5

\* The number of store-changing calls made straight to the helpers of
\* services/api.js in a run.
MaxCalls == 3

\* The largest number of records a store that is only read starts with.
MaxStored == 11

\* The number of clicks (Next, Previous, a status filter, Delete) the user
\* makes on the list page in a run.
MaxClicks == 3

\* ------------------------------------------------------------- vocabulary

\* Identifiers are opaque tokens, numbered here in the order the store hands
\* them out; NoId stands for "no id".
NoId == 0

\* The text handleSubmit reports when a required field is empty.
RequiredFieldsMessage ==
  "Required fields are missing (First Name, Last Name, DOB, Status)."

\* The value getClientById yields for a 404 answer, and the empty slot of
\* the request channel.
Null == [null |-> TRUE]

FormFields ==
  {"first_name", "last_name", "date_of_birth", "email", "phone", "status_code",
   "primary_language_code", "pronoun_code", "sex", "interpreter_needed"}

initialFormState ==
  [first_name |-> "", last_name |-> "", date_of_birth |-> "", email |-> "",
   phone |-> "", status_code |-> "", primary_language_code |-> "",
   pronoun_code |-> "", sex |-> "", interpreter_needed |-> FALSE]

\* What the user puts into the inputs of the form: the name, date of birth
\* and email of the API document's create example (the client the store is
\* seeded with, entered again) and a status of the reference data. The other
\* inputs are left as the form shows them.
FieldValues(name) ==
  CASE name = "first_name" -> {"John"}
    [] name = "last_name" -> {"Doe"}
    [] name = "date_of_birth" -> {"1990-03-15"}
    [] name = "email" -> {"john.doe@example.com"}
    [] name = "phone" -> {}
    [] name = "status_code" -> {"inactive"}
    [] name = "primary_language_code" -> {}
    [] name = "pronoun_code" -> {}
    [] name = "sex" -> {}
    [] name = "interpreter_needed" -> {}

\* The reference data of the API document: the codes a client's status,
\* language, pronoun and sex may name.
Catalog ==
  [status_code |-> {"active", "inactive"},
   primary_language_code |-> {"en-NZ", "mi-NZ"},
   pronoun_code |-> {"he-him", "she-her", "they-them"},
   sex |-> {"male", "female", "intersex", "unknown"}]

\* The record the store starts with: the client of the API document's create
\* example, stored flat, created (and last updated) at instant 0.
SeedClient ==
  [id |-> 1, first_name |-> "John", last_name |-> "Doe",
   date_of_birth |-> "1990-03-15", email |-> "john.doe@example.com",
   phone |-> "+64 9 555 0123", status_code |-> "active",
   primary_language_code |-> "en-NZ", pronoun_code |-> "he-him",
   sex |-> "male", interpreter_needed |-> FALSE,
   created_at |-> 0, updated_at |-> 0]

VARIABLES
  clients,      \* db.get('clients'): the stored records, in insertion order
  now,          \* the clock: the last instant any new Date() returned
  formMode,     \* the form page: "closed", "create" or "edit"
  formId,       \* useParams().id of the edit form
  formData,     \* the form's formData state
  isLoading,    \* the form's isLoading state
  formError,    \* the form's formError state
  error,        \* the form's error state
  net,          \* the form's request in flight, or the answer to it
  last,         \* the last request the server answered: [op, id, status],
                \* and whether it was a DELETE of a soft-deleted record
  changes,      \* how many handleChange events have happened
  issued,       \* history: the ids returned by successful creates
  createdAt0,   \* history: id -> created_at as first stored
  loaded,       \* history: the form fields as the edit form read them from
                \* the server, Null while no client is loaded
  ret,          \* the last call of a helper of services/api.js made from outside
                \* the pages: the helper, its arguments, and what it returned
                \* or that it threw
  calls,        \* how many such calls have changed the store
  listPage,     \* the list page's state (clients, totalClients, currentPage,
                \* statusFilter, isLoading, error), what its last
                \* handleDelete announced (alert) and which fetch its clients
                \* and totalClients are from; Null while it is not mounted
  fetches,      \* the list page's getClients calls in flight
  deletes,      \* the list page's deleteClient calls in flight
  clicks,       \* how many clicks the list page has taken
  detail        \* the detail page's state (id, client, isLoading, error);
                \* Null while the page is not mounted

vars == <<clients, now, formMode, formId, formData, isLoading, formError,
          error, net, last, changes, issued, createdAt0, loaded,
          ret, calls, listPage, fetches, deletes, clicks, detail>>

history == <<issued, createdAt0>>
form == <<formMode, formId, formData, isLoading, formError, error, loaded>>
api == <<ret, calls>>
browse == <<listPage, fetches, deletes, clicks, detail>>

\* ------------------------------------------------------------- operators

\* new Date(): the clock is read; it may have advanced since the last read.
Readings(t) == {u \in t..MaxTime : u <= t + 1}

\* Object.assign / lodash assign / object spread: src's fields over obj's.
Assign(obj, src) ==
  [k \in DOMAIN obj \cup DOMAIN src |-> IF k \in DOMAIN src THEN src[k] ELSE obj[k]]

\* Faulty variant of Find: the predicate is dropped, the first record always matches.
Find_First(id) == IF Len(clients) > 0 THEN 1 ELSE 0

\* db.get('clients').find({ id }): the position of the first match, or 0.
Find(id) ==
  IF \E i \in 1..Len(clients) : clients[i].id = id
  THEN CHOOSE i \in 1..Len(clients) :
         /\ clients[i].id = id
         /\ \A j \in 1..(i - 1) : clients[j].id # id
  ELSE 0

\* Faulty variant of getClientById: soft-deleted records are answered 404.
getClientById_LiveOnly(id) ==
  IF Find(id) = 0 THEN Null
  ELSE IF clients[Find(id)].status_code = "deleted" THEN Null
  ELSE clients[Find(id)]

\* GET /clients/:id as getClientById sees it: the record, or null on 404.
getClientById(id) == IF Find(id) = 0 THEN Null ELSE clients[Find(id)]

\* Faulty variant of createId: the id of the last stored record is handed out again.
createId_Reused == Len(clients)

\* json-server's id for an inserted record: one no stored record has.
createId == Len(clients) + 1

\* POST /clients (json-server): the record stored for a body; the id is the
\* body's own when it carries one, the generated one otherwise.
inserted(body, id) ==
  IF "id" \in DOMAIN body THEN body ELSE Assign(body, [id |-> id])

\* Faulty variant of patched: the body replaces the record, as a PUT does.
patched_Replaced(client, body) == Assign(body, [id |-> client.id])

\* PATCH /clients/:id (json-server): the body's fields over the stored
\* record's, the record's id kept.
patched(client, body) == Assign(Assign(client, body), [id |-> client.id])

\* Faulty variant of softDeleted: the record is replaced, not assigned to.
softDeleted_Replaced(client, t) ==
  [id |-> client.id, status_code |-> "deleted", deleted_at |-> t]

\* Faulty variant of softDeleted: updated_at is stamped too.
softDeleted_Touched(client, t) ==
  Assign(client, [status_code |-> "deleted", deleted_at |-> t, updated_at |-> t])

\* The soft-delete route's .assign({ status_code: 'deleted', deleted_at }).
softDeleted(client, t) ==
  Assign(client, [status_code |-> "deleted", deleted_at |-> t])

\* Faulty variant of deleteStatus: 204 whether or not a client was found.
deleteStatus_Always204(i) == 204

\* The soft-delete route's answer: 204 for a stored client (position i # 0),
\* 404 CLIENT_NOT_FOUND otherwise.
deleteStatus(i) == IF i # 0 THEN 204 ELSE 404

\* Faulty variant of submissionData: created_at is stamped on an edit as well.
submissionData_AlwaysCreated(fd, isEditMode, t1, t2) ==
  Assign(fd, [created_at |-> t1, updated_at |-> t2])

\* handleSubmit's submissionData: the form data plus updated_at = t1 on an
\* edit, plus created_at = t1 and updated_at = t2 (two clock reads) on a create.
submissionData(fd, isEditMode, t1, t2) ==
  IF isEditMode
  THEN Assign(fd, [updated_at |-> t1])
  ELSE Assign(fd, [created_at |-> t1, updated_at |-> t2])

\* The ids a request path can name: those of the stored records and one
\* that no record has.
Ids == 1..(Len(clients) + 1)

\* The form's copy of a fetched client: only the keys of initialFormState,
\* interpreter_needed forced to a boolean.
clientDataForForm(client) ==
  [k \in DOMAIN initialFormState |->
     IF k = "interpreter_needed"
     THEN IF k \in DOMAIN client THEN client[k] = TRUE ELSE FALSE
     ELSE IF k \in DOMAIN client THEN client[k] ELSE initialFormState[k]]

\* Faulty variant of RequiredMissing: the status is not tested.
RequiredMissing_NoStatus(fd) ==
  \/ fd.first_name = ""
  \/ fd.last_name = ""
  \/ fd.date_of_birth = ""

\* handleSubmit's required-field test.
RequiredMissing(fd) ==
  \/ fd.first_name = ""
  \/ fd.last_name = ""
  \/ fd.date_of_birth = ""
  \/ fd.status_code = ""

\* The form is on screen with its inputs (not the loading or error text).
FormRendered ==
  /\ formMode # "closed"
  /\ error = ""
  /\ ~(isLoading /\ formMode = "edit" /\ formData.first_name = "")

\* What the form page renders: the loading text, the form, or, with an error
\* set, nothing: the error branch builds a <Link>, a name the module never
\* imports, so rendering it throws a ReferenceError.
FormPageView ==
  IF formMode = "closed" THEN "unmounted"
  ELSE IF isLoading /\ formMode = "edit" /\ formData.first_name = ""
       THEN "Loading form data..."
  ELSE IF error # "" THEN "ReferenceError: Link is not defined"
  ELSE "form"

\* What the detail page renders: the loading text, the error, the not-found
\* text, or the client's details.
DetailPageView ==
  IF detail = Null THEN "unmounted"
  ELSE IF detail.isLoading THEN "Loading client details..."
  ELSE IF detail.error # "" THEN detail.error
  ELSE IF detail.client = Null THEN "Client not found."
  ELSE "details"

\* The texts the list page renders besides its rows: the loading text, the
\* error, and the empty-table text when it has no rows.
ListPageTexts ==
  IF listPage = Null THEN {}
  ELSE (IF listPage.isLoading THEN {"Loading clients..."} ELSE {})
       \cup (IF listPage.error # "" THEN {listPage.error} ELSE {})
       \cup (IF Len(listPage.clients) > 0 THEN {} ELSE {"No clients found."})

\* ------------------------------------------------------------------- Init

Init ==
  /\ clients = <<SeedClient>>
  /\ now = 0
  /\ formMode = "closed"
  /\ formId = NoId
  /\ formData = initialFormState
  /\ isLoading = FALSE
  /\ formError = ""
  /\ error = ""
  /\ net = Null
  /\ last = [op |-> "none", id |-> NoId, status |-> 0, repeat |-> FALSE]
  /\ changes = 0
  /\ issued = {}
  /\ createdAt0 = [i \in {SeedClient.id} |-> SeedClient.created_at]
  /\ loaded = Null
  /\ ret = [fn |-> "none"]
  /\ calls = 0
  /\ listPage = Null
  /\ fetches = {}
  /\ deletes = {}
  /\ clicks = 0
  /\ detail = Null

\* --------------------------------------------- the form page (browser)

\* Route /clients/new mounts the form in create mode with the blank form.
OpenCreate ==
  /\ formMode = "closed"
  /\ listPage = Null
  /\ detail = Null
  /\ net = Null
  /\ formMode' = "create"
  /\ formId' = NoId
  /\ formData' = initialFormState
  /\ isLoading' = FALSE
  /\ formError' = ""
  /\ error' = ""
  /\ loaded' = Null
  /\ UNCHANGED <<clients, now, net, last, changes, history, api, browse>>

\* Route /clients/edit/:id mounts the form in edit mode; its effect sets the
\* loading flag and asks the server for the client.
OpenEdit(id) ==
  /\ formMode = "closed"
  /\ listPage = Null
  /\ detail = Null
  /\ net = Null
  /\ formMode' = "edit"
  /\ formId' = id
  /\ formData' = initialFormState
  /\ isLoading' = TRUE
  /\ formError' = ""
  /\ error' = ""
  /\ loaded' = Null
  /\ net' = [kind |-> "GET", id |-> id]
  /\ UNCHANGED <<clients, now, last, changes, history, api, browse>>

\* getClientById(id) settles: the form takes the client's form fields, or
\* reports that there is no such client (404, null), or reports that the
\* fetch failed (another answer, or no answer: getClientById throws).
EditLoaded ==
  /\ net # Null
  /\ net.kind = "GET"
  /\ \E ok \in BOOLEAN :
       LET client == getClientById(net.id) IN
         IF ok /\ client # Null
         THEN /\ formData' = clientDataForForm(client)
              /\ loaded' = clientDataForForm(client)
              /\ error' = error
         ELSE /\ error' = IF ok THEN "Client not found for editing."
                                ELSE "Failed to fetch client for editing."
              /\ formData' = formData
              /\ loaded' = loaded
  /\ isLoading' = FALSE
  /\ net' = Null
  /\ UNCHANGED <<clients, now, formMode, formId, formError, last, changes, history, api, browse>>

\* The user changes one input of the form.
handleChange(name, value) ==
  /\ FormRendered
  /\ changes < MaxChanges
  /\ value # formData[name]
  /\ formData' = [formData EXCEPT ![name] = value]
  /\ changes' = changes + 1
  /\ UNCHANGED <<clients, now, formMode, formId, isLoading, formError, error,
                 net, last, history, loaded, api, browse>>

\* The user submits the form. Required fields missing: the form reports it
\* and sends nothing. Otherwise the form data goes out with the timestamps
\* the browser stamps on it: updated_at on an edit, created_at and then
\* updated_at, each its own new Date(), on a create.
handleSubmit ==
  /\ FormRendered
  /\ ~isLoading
  /\ IF RequiredMissing(formData)
     THEN /\ formError' = RequiredFieldsMessage
          /\ isLoading' = FALSE
          /\ UNCHANGED <<now, net>>
     ELSE /\ formError' = ""
          /\ isLoading' = TRUE
          /\ IF formMode = "edit"
             THEN \E t \in Readings(now) :
                    /\ now' = t
                    /\ net' = [kind |-> "PATCH", id |-> formId,
                               body |-> submissionData(formData, TRUE, t, t)]
             ELSE \E t1 \in Readings(now) : \E t2 \in Readings(t1) :
                    /\ now' = t2
                    /\ net' = [kind |-> "POST", id |-> NoId,
                               body |-> submissionData(formData, FALSE, t1, t2)]
  /\ UNCHANGED <<clients, formMode, formId, formData, error, last, changes, history,
                 loaded, api, browse>>

\* createClient / updateClient settle: on success the page navigates away (the
\* form is unmounted); on a failure answer the form shows the error.
SubmitSettled ==
  /\ net # Null
  /\ net.kind = "RESP"
  /\ IF net.status \in 200..299
     THEN /\ formMode' = "closed"
          /\ formId' = NoId
          /\ formData' = initialFormState
          /\ formError' = formError
          /\ loaded' = Null
     ELSE /\ formError' = "HTTP error!"
          /\ UNCHANGED <<formMode, formId, formData, loaded>>
  /\ isLoading' = FALSE
  /\ net' = Null
  /\ UNCHANGED <<clients, now, error, last, changes, history, api, browse>>

\* Cancel, or a link of the page header: the form is left.
CloseForm ==
  /\ formMode # "closed"
  /\ ~isLoading
  /\ formMode' = "closed"
  /\ formId' = NoId
  /\ formData' = initialFormState
  /\ formError' = ""
  /\ error' = ""
  /\ loaded' = Null
  /\ UNCHANGED <<clients, now, isLoading, net, last, changes, history, api, browse>>

\* ------------------------------------------------------------- the server

\* POST /clients (json-server): the body is stored under a fresh id; 201.
ServerPost ==
  /\ net # Null
  /\ net.kind = "POST"
  /\ LET rec == inserted(net.body, createId) IN
         /\ clients' = Append(clients, rec)
         /\ net' = [kind |-> "RESP", status |-> 201, id |-> rec.id]
         /\ last' = [op |-> "POST", id |-> rec.id, status |-> 201, repeat |-> FALSE]
         /\ issued' = issued \cup {rec.id}
         /\ createdAt0' = IF rec.id \in DOMAIN createdAt0 THEN createdAt0
                          ELSE Assign(createdAt0, [i \in {rec.id} |-> rec.created_at])
  /\ UNCHANGED <<now, form, changes, api, browse>>

\* PATCH /clients/:id (json-server): the body's fields replace the stored
\* record's, its id kept; 200, or 404 when no record has the id.
ServerPatch ==
  /\ net # Null
  /\ net.kind = "PATCH"
  /\ LET i == Find(net.id) IN
       IF i = 0
       THEN /\ net' = [kind |-> "RESP", status |-> 404, id |-> net.id]
            /\ last' = [op |-> "PATCH", id |-> net.id, status |-> 404, repeat |-> FALSE]
            /\ clients' = clients
       ELSE /\ clients' = [clients EXCEPT ![i] = patched(@, net.body)]
            /\ net' = [kind |-> "RESP", status |-> 200, id |-> net.id]
            /\ last' = [op |-> "PATCH", id |-> net.id, status |-> 200, repeat |-> FALSE]
  /\ UNCHANGED <<now, form, changes, history, api, browse>>

\* DELETE /api/v1/clients/:id, the custom soft-delete route: a stored client
\* gets status_code 'deleted' and deleted_at = new Date(), answer 204;
\* otherwise 404 CLIENT_NOT_FOUND.
softDelete(clientId) ==
  /\ LET i == Find(clientId) IN
       IF i # 0
       THEN \E t \in Readings(now) :
              /\ now' = t
              /\ clients' = [clients EXCEPT ![i] = softDeleted(@, t)]
              /\ last' = [op |-> "DELETE", id |-> clientId, status |-> deleteStatus(i),
                          repeat |-> clients[i].status_code = "deleted"]
       ELSE /\ last' = [op |-> "DELETE", id |-> clientId, status |-> deleteStatus(i),
                        repeat |-> FALSE]
            /\ UNCHANGED <<clients, now>>
  /\ UNCHANGED <<form, net, changes, history, api, browse>>

\* ------------------------------------------- the detail page (browser)

\* Route /clients/:id mounts the detail page, whose effect fetches the client.
OpenDetail(id) ==
  /\ formMode = "closed"
  /\ listPage = Null
  /\ detail = Null
  /\ detail' = [id |-> id, client |-> Null, isLoading |-> TRUE, error |-> ""]
  /\ UNCHANGED <<clients, now, form, net, last, changes, history, api,
                 listPage, fetches, deletes, clicks>>

\* fetchDetails settles: the client (null on a 404, with the not-found
\* error) or, when getClientById throws, the fetch-failure error.
DetailLoaded ==
  /\ detail # Null
  /\ detail.isLoading
  /\ \E ok \in BOOLEAN :
       detail' = IF ok
                 THEN [detail EXCEPT !.client = getClientById(detail.id),
                                     !.error = IF getClientById(detail.id) = Null
                                               THEN "Client not found." ELSE "",
                                     !.isLoading = FALSE]
                 ELSE [detail EXCEPT !.error = "Failed to fetch client details.",
                                     !.isLoading = FALSE]
  /\ UNCHANGED <<clients, now, form, net, last, changes, history, api,
                 listPage, fetches, deletes, clicks>>

\* A link of the detail page or of the page header: the detail page is left.
CloseDetail ==
  /\ detail # Null
  /\ detail' = Null
  /\ UNCHANGED <<clients, now, form, net, last, changes, history, api,
                 listPage, fetches, deletes, clicks>>

\* ------------------------------------------------- listing the clients

\* The list page's page size.
ITEMS_PER_PAGE == 2

\* json-server's page size for a paginated request that names none.
DefaultLimit == 10

\* A query without parameters.
NoParams == [k \in {} |-> 0]

Min(a, b) == IF a < b THEN a ELSE b
Max(a, b) == IF a > b THEN a ELSE b

\* GET /clients (json-server), filtering: the stored records whose
\* status_code is the query's, every record when the query names none.
filtered(params) ==
  IF "status_code" \in DOMAIN params
  THEN SelectSeq(clients, LAMBDA c : c.status_code = params.status_code)
  ELSE clients

\* GET /clients (json-server), pagination: the page size of a query with
\* _page is its _limit, or the default when _limit is missing or 0.
perPage(params) ==
  IF "_limit" \in DOMAIN params /\ params._limit # 0
  THEN params._limit
  ELSE DefaultLimit

\* json-server's getPage: the items of page `page` of `array`, perPage each.
getPage(array, page, limit) ==
  SubSeq(array, (page - 1) * limit + 1, Min(page * limit, Len(array)))

\* GET /clients (json-server): the records of the requested page and the
\* X-Total-Count header (the number of matching records; 0 - 1 stands for a
\* missing header, which is sent only when the query names a _limit).
list(params) ==
  LET array == filtered(params) IN
    [data |-> IF "_page" \in DOMAIN params
              THEN getPage(array, Max(1, params._page), perPage(params))
              ELSE IF "_limit" \in DOMAIN params
                   THEN SubSeq(array, 1, Min(params._limit, Len(array)))
                   ELSE array,
     total |-> IF "_limit" \in DOMAIN params THEN Len(array) ELSE 0 - 1]

\* What getClients(params) returns: the page and parseInt(X-Total-Count) or,
\* when that is 0 or not a number, the length of the page; an empty result
\* with total 0 when the request fails.
getClientsResult(params, ok) ==
  IF ok
  THEN LET answer == list(params) IN
         [data |-> answer.data,
          totalCount |-> IF answer.total > 0 THEN answer.total ELSE Len(answer.data)]
  ELSE [data |-> <<>>, totalCount |-> 0]

\* The queries a caller makes: a page, with or without a limit, with or
\* without a status filter.
QueryParams ==
  {Assign(Assign([_page |-> p], l), f) :
     p \in 1..2,
     l \in {NoParams, [_limit |-> 0], [_limit |-> ITEMS_PER_PAGE], [_limit |-> 500]},
     f \in {NoParams, [status_code |-> "active"], [status_code |-> "inactive"]}}

\* getClients(params): GET /clients with the parameters as the query string.
getClients(params) ==
  /\ \E ok \in BOOLEAN :
       ret' = [fn |-> "getClients", params |-> params, ok |-> ok, threw |-> FALSE,
               value |-> getClientsResult(params, ok)]
  /\ UNCHANGED <<clients, now, form, net, last, changes, history, calls, browse>>

\* A stored client number i: the seeded client's fields, every fourth one
\* inactive.
StoredClient(i) ==
  Assign(SeedClient,
         [id |-> i,
          email |-> IF i = 1 THEN SeedClient.email ELSE "",
          status_code |-> IF i % 4 = 0 THEN "inactive" ELSE "active"])

\* A store of up to MaxStored clients, nothing in flight, no page open.
InitStored ==
  /\ \E n \in 0..MaxStored : clients = [i \in 1..n |-> StoredClient(i)]
  /\ now = 0
  /\ formMode = "closed"
  /\ formId = NoId
  /\ formData = initialFormState
  /\ isLoading = FALSE
  /\ formError = ""
  /\ error = ""
  /\ net = Null
  /\ last = [op |-> "none", id |-> NoId, status |-> 0, repeat |-> FALSE]
  /\ changes = 0
  /\ issued = {}
  /\ createdAt0 = [i \in 1..Len(clients) |-> 0]
  /\ loaded = Null
  /\ ret = [fn |-> "none"]
  /\ calls = 0
  /\ listPage = Null
  /\ fetches = {}
  /\ deletes = {}
  /\ clicks = 0
  /\ detail = Null

\* --------------------------------------------- the list page (browser)

\* Faulty variant of deleteClientThrows: every answer counts as success.
deleteClientThrows_Never(status) == FALSE

\* deleteClient throws unless the answer is 204 or another 2xx.
deleteClientThrows(status) == status # 204 /\ status \notin 200..299

\* The status options the filter offers: all, and those of the reference data.
StatusFilters == {""} \cup Catalog.status_code

\* fetchClientData's params for a page and a status filter.
fetchParams(page, filter) ==
  Assign([_page |-> page, _limit |-> ITEMS_PER_PAGE],
         IF filter # "" THEN [status_code |-> filter] ELSE NoParams)

\* Math.ceil(totalClients / ITEMS_PER_PAGE).
totalPages == (listPage.totalClients + ITEMS_PER_PAGE - 1) \div ITEMS_PER_PAGE

\* The user has a click left.
CanClick == clicks < MaxClicks

\* The list page's state after fetchClientData has started a fetch: loading,
\* no error.
fetching(page) == [page EXCEPT !.isLoading = TRUE, !.error = ""]

\* Route / mounts the list page: page 1, no filter; its effect fetches.
OpenList ==
  /\ formMode = "closed"
  /\ listPage = Null
  /\ detail = Null
  /\ listPage' = [clients |-> <<>>, totalClients |-> 0, currentPage |-> 1,
                  statusFilter |-> "", isLoading |-> TRUE, error |-> "", alert |-> "",
                  from |-> [page |-> 0, filter |-> "", ok |-> FALSE]]
  /\ fetches' = {[page |-> 1, filter |-> ""]}
  /\ UNCHANGED <<clients, now, form, net, last, changes, history, api, deletes, clicks, detail>>

\* A getClients call of fetchClientData settles: the page takes the data and
\* the total count (an empty page and 0 when the request failed).
FetchSettled(f) ==
  /\ f \in fetches
  /\ \E ok \in BOOLEAN :
       LET result == getClientsResult(fetchParams(f.page, f.filter), ok) IN
         listPage' = [listPage EXCEPT !.clients = result.data,
                                      !.totalClients = result.totalCount,
                                      !.isLoading = FALSE,
                                      !.from = [page |-> f.page, filter |-> f.filter,
                                                ok |-> ok]]
  /\ fetches' = fetches \ {f}
  /\ UNCHANGED <<clients, now, form, net, last, changes, history, api, deletes, clicks, detail>>

\* The Next button: the next page, the last one at most; the effect fetches.
NextPage ==
  /\ listPage # Null
  /\ CanClick
  /\ clicks' = clicks + 1
  /\ totalPages > 1
  /\ listPage.currentPage # totalPages
  /\ LET p == Min(totalPages, listPage.currentPage + 1) IN
       /\ listPage' = fetching([listPage EXCEPT !.currentPage = p])
       /\ fetches' = fetches \cup {[page |-> p, filter |-> listPage.statusFilter]}
  /\ UNCHANGED <<clients, now, form, net, last, changes, history, api, deletes, detail>>

\* The Previous button: the page before, page 1 at least; the effect fetches.
PreviousPage ==
  /\ listPage # Null
  /\ CanClick
  /\ clicks' = clicks + 1
  /\ totalPages > 1
  /\ listPage.currentPage # 1
  /\ LET p == Max(1, listPage.currentPage - 1) IN
       /\ listPage' = fetching([listPage EXCEPT !.currentPage = p])
       /\ fetches' = fetches \cup {[page |-> p, filter |-> listPage.statusFilter]}
  /\ UNCHANGED <<clients, now, form, net, last, changes, history, api, deletes, detail>>

\* The user picks another status filter: page 1 of it; the effect fetches.
handleStatusFilterChange(value) ==
  /\ listPage # Null
  /\ CanClick
  /\ clicks' = clicks + 1
  /\ value # listPage.statusFilter
  /\ listPage' = fetching([listPage EXCEPT !.statusFilter = value, !.currentPage = 1])
  /\ fetches' = fetches \cup {[page |-> 1, filter |-> value]}
  /\ UNCHANGED <<clients, now, form, net, last, changes, history, api, deletes, detail>>

\* The Delete button of a row, confirmed: deleteClient goes out. The handler
\* keeps the fetchClientData of the render it was clicked in (its page and
\* filter).
handleDelete(clientId) ==
  /\ listPage # Null
  /\ CanClick
  /\ clicks' = clicks + 1
  /\ \E i \in 1..Len(listPage.clients) : listPage.clients[i].id = clientId
  /\ listPage' = [listPage EXCEPT !.isLoading = TRUE]
  /\ deletes' = deletes \cup {[id |-> clientId, page |-> listPage.currentPage,
                               filter |-> listPage.statusFilter, status |-> 0]}
  /\ UNCHANGED <<clients, now, form, net, last, changes, history, api, fetches, detail>>

\* The server answers a deleteClient of the list page: the soft-delete route,
\* or an error (500) in its place.
DeleteAnswered(m) ==
  /\ m \in deletes
  /\ m.status = 0
  /\ \E ok \in BOOLEAN :
       LET i == Find(m.id) IN
         IF ok /\ i # 0
         THEN \E t \in Readings(now) :
                /\ now' = t
                /\ clients' = [clients EXCEPT ![i] = softDeleted(@, t)]
                /\ last' = [op |-> "DELETE", id |-> m.id, status |-> deleteStatus(i),
                            repeat |-> clients[i].status_code = "deleted"]
                /\ deletes' = (deletes \ {m}) \cup {[m EXCEPT !.status = deleteStatus(i)]}
         ELSE /\ deletes' = (deletes \ {m}) \cup
                              {[m EXCEPT !.status = IF ok THEN deleteStatus(i) ELSE 500]}
              /\ last' = IF ok
                         THEN [op |-> "DELETE", id |-> m.id, status |-> deleteStatus(i),
                               repeat |-> FALSE]
                         ELSE last
              /\ UNCHANGED <<clients, now>>
  /\ UNCHANGED <<form, net, changes, history, api, listPage, fetches, clicks, detail>>

\* deleteClient settles in handleDelete. Success: the alert, then
\* fetchClientData (loading, no error, a fetch of the handler's page and
\* filter), then the loading flag cleared. A throw: the error set, the
\* loading flag cleared. The alert field holds what this run announced.
DeleteSettled(m) ==
  /\ m \in deletes
  /\ m.status # 0
  /\ listPage # Null
  /\ IF deleteClientThrows(m.status)
     THEN /\ listPage' = [listPage EXCEPT !.error = "HTTP error!",
                                          !.alert = "",
                                          !.isLoading = FALSE]
          /\ fetches' = fetches
     ELSE /\ listPage' = [listPage EXCEPT !.error = "",
                                          !.alert = "Client marked as deleted successfully.",
                                          !.isLoading = FALSE]
          /\ fetches' = fetches \cup {[page |-> m.page, filter |-> m.filter]}
  /\ deletes' = deletes \ {m}
  /\ UNCHANGED <<clients, now, form, net, last, changes, history, api, clicks, detail>>

\* A link of a row or of the page header: the list page is left; what its
\* fetches in flight return goes to no page.
LeaveList ==
  /\ listPage # Null
  /\ deletes = {}
  /\ listPage' = Null
  /\ fetches' = {}
  /\ UNCHANGED <<clients, now, form, net, last, changes, history, api, deletes, clicks, detail>>

\* A store of three active clients, the clock at its last instant, nothing
\* in flight, no page open.
InitBrowse ==
  /\ clients = [i \in 1..3 |-> StoredClient(i)]
  /\ now = MaxTime
  /\ formMode = "closed"
  /\ formId = NoId
  /\ formData = initialFormState
  /\ isLoading = FALSE
  /\ formError = ""
  /\ error = ""
  /\ net = Null
  /\ last = [op |-> "none", id |-> NoId, status |-> 0, repeat |-> FALSE]
  /\ changes = 0
  /\ issued = {}
  /\ createdAt0 = [i \in 1..Len(clients) |-> 0]
  /\ loaded = Null
  /\ ret = [fn |-> "none"]
  /\ calls = 0
  /\ listPage = Null
  /\ fetches = {}
  /\ deletes = {}
  /\ clicks = 0
  /\ detail = Null

\* ------------------------------- services/api.js, called with any input

\* What a caller hands to createClient: the create example of the API
\* document, and the same client with a status the reference data does not
\* have.
CreateInputs ==
  {[first_name |-> "John", last_name |-> "Doe", date_of_birth |-> "1990-03-15",
    status_code |-> s, email |-> "john.doe@example.com"] :
     s \in {"active", "not-a-real-code"}}

\* What a caller hands to updateClient: a phone number alone, and the PATCH
\* example of the API document.
UpdateInputs ==
  {[phone |-> "+64 21 987 6543"],
   [email |-> "jane.smith.updated@example.com", phone |-> "+64 21 987 6543",
    sex |-> "female"]}

\* createClient(clientData): POST /clients with the data as the body; the
\* stored record is returned, a failed request is thrown.
createClient(clientData) ==
  /\ calls < MaxCalls
  /\ \E ok \in BOOLEAN :
       IF ok
       THEN LET rec == inserted(clientData, createId) IN
              /\ clients' = Append(clients, rec)
              /\ last' = [op |-> "POST", id |-> rec.id, status |-> 201, repeat |-> FALSE]
              /\ issued' = issued \cup {rec.id}
              /\ ret' = [fn |-> "createClient", data |-> clientData, threw |-> FALSE,
                         value |-> rec]
              /\ calls' = calls + 1
       ELSE /\ ret' = [fn |-> "createClient", data |-> clientData, threw |-> TRUE]
            /\ UNCHANGED <<clients, last, issued, calls>>
  /\ UNCHANGED <<now, form, net, changes, createdAt0, browse>>

\* updateClient(id, clientData): PATCH /clients/:id with the data as the
\* body; the updated record is returned, a 404 or a failed request is thrown.
updateClient(id, clientData) ==
  /\ calls < MaxCalls
  /\ \E ok \in BOOLEAN :
       LET i == Find(id) IN
         IF ok /\ i # 0
         THEN /\ clients' = [clients EXCEPT ![i] = patched(@, clientData)]
              /\ last' = [op |-> "PATCH", id |-> id, status |-> 200, repeat |-> FALSE]
              /\ ret' = [fn |-> "updateClient", id |-> id, data |-> clientData,
                         threw |-> FALSE, value |-> patched(clients[i], clientData)]
              /\ calls' = calls + 1
         ELSE /\ ret' = [fn |-> "updateClient", id |-> id, data |-> clientData,
                         threw |-> TRUE]
              /\ last' = IF ok
                         THEN [op |-> "PATCH", id |-> id, status |-> 404, repeat |-> FALSE]
                         ELSE last
              /\ UNCHANGED <<clients, calls>>
  /\ UNCHANGED <<now, form, net, changes, history, browse>>

\* deleteClient(id): DELETE /clients/:id, answered by the soft-delete route;
\* success for a 204 (or another 2xx), anything else is thrown.
deleteClient(id) ==
  /\ calls < MaxCalls
  /\ \E ok \in BOOLEAN :
       LET i == Find(id) IN
         IF ok /\ i # 0
         THEN \E t \in Readings(now) :
                /\ now' = t
                /\ clients' = [clients EXCEPT ![i] = softDeleted(@, t)]
                /\ last' = [op |-> "DELETE", id |-> id, status |-> deleteStatus(i),
                            repeat |-> clients[i].status_code = "deleted"]
                /\ ret' = [fn |-> "deleteClient", id |-> id,
                           threw |-> deleteClientThrows(deleteStatus(i))]
                /\ calls' = calls + 1
         ELSE /\ ret' = [fn |-> "deleteClient", id |-> id, threw |-> TRUE]
              /\ last' = IF ok
                         THEN [op |-> "DELETE", id |-> id, status |-> deleteStatus(i),
                               repeat |-> FALSE]
                         ELSE last
              /\ UNCHANGED <<clients, now, calls>>
  /\ UNCHANGED <<form, net, changes, history, browse>>

\* ------------------------------------------------------------------- Next

Next ==
  \/ OpenCreate
  \/ \E id \in Ids : OpenEdit(id)
  \/ EditLoaded
  \/ \E name \in FormFields : \E value \in FieldValues(name) : handleChange(name, value)
  \/ handleSubmit
  \/ SubmitSettled
  \/ CloseForm
  \/ ServerPost
  \/ ServerPatch
  \/ \E id \in Ids : softDelete(id)

Spec == Init /\ [][Next]_vars

\* The store under calls made straight to the helpers of services/api.js.
NextApi ==
  \/ \E clientData \in CreateInputs : createClient(clientData)
  \/ \E id \in Ids : \E clientData \in UpdateInputs : updateClient(id, clientData)
  \/ \E id \in Ids : deleteClient(id)

SpecApi == Init /\ [][NextApi]_vars

\* A store that is read through getClients.
NextQuery == \E params \in QueryParams : getClients(params)

SpecQuery == InitStored /\ [][NextQuery]_vars

\* The pages a user browses the store with: the list page, the detail page
\* and the edit form up to its load.
NextBrowse ==
  \/ OpenList
  \/ \E f \in fetches : FetchSettled(f)
  \/ NextPage
  \/ PreviousPage
  \/ \E value \in StatusFilters : handleStatusFilterChange(value)
  \/ \E id \in Ids : handleDelete(id)
  \/ \E m \in deletes : DeleteAnswered(m)
  \/ \E m \in deletes : DeleteSettled(m)
  \/ LeaveList
  \/ \E id \in Ids : OpenDetail(id)
  \/ DetailLoaded
  \/ CloseDetail
  \/ \E id \in Ids : OpenEdit(id)
  \/ EditLoaded
  \/ CloseForm

SpecBrowse == InitBrowse /\ [][NextBrowse]_vars

\* ----------------------------------------------------------- properties

\* A step in which the server answered a DELETE request.
DeleteStep == last'.op = "DELETE" /\ (last' # last \/ clients' # clients)

\* The positions of the stored records a request path id names.
Named(id) == {i \in 1..Len(clients) : clients[i].id = id}

\* Record r2 has every field of r1, with r1's value, except the fields in ks.
SameExcept(r1, r2, ks) ==
  \A k \in DOMAIN r1 \ ks : k \in DOMAIN r2 /\ r2[k] = r1[k]

\* C1: softDelete(id) on a stored record sets its status_code to "deleted"
\* and its deleted_at to a timestamp, and leaves every other field of that
\* record and every other record as they were.
C1_SoftDeleteFrame ==
  [][DeleteStep =>
       /\ Len(clients') = Len(clients)
       /\ \A i \in 1..Len(clients) :
            IF i \in Named(last'.id)
            THEN /\ clients'[i].status_code = "deleted"
                 /\ "deleted_at" \in DOMAIN clients'[i]
                 /\ clients'[i].deleted_at \in 0..MaxTime
                 /\ DOMAIN clients'[i] = DOMAIN clients[i] \cup {"deleted_at"}
                 /\ SameExcept(clients[i], clients'[i], {"status_code", "deleted_at"})
            ELSE clients'[i] = clients[i]]_vars

\* C1 witness: a soft delete of one of two stored records has been answered.
C1_Witness ==
  /\ last.op = "DELETE"
  /\ last.status = 204
  /\ Len(clients) = 2
  /\ getClientById(last.id) # Null
  /\ getClientById(last.id).status_code = "deleted"

\* C2: every id a successful create returned still resolves through
\* getClientById, whatever creates, updates and soft deletes followed.
C2_IssuedIdsResolve ==
  \A id \in issued : getClientById(id) # Null

\* C2 witness: a created record has been soft-deleted (and still resolves).
C2_Witness ==
  \E i \in 1..Len(clients) :
    /\ clients[i].id \in issued
    /\ clients[i].status_code = "deleted"
    /\ "deleted_at" \in DOMAIN clients[i]

\* C3: softDelete(id) answers 404 and leaves the collection unchanged when
\* no record has the id, and answers 204 when one has.
C3_DeleteAnswer ==
  [][DeleteStep =>
       IF Named(last'.id) = {}
       THEN last'.status = 404 /\ clients' = clients
       ELSE last'.status = 204]_vars

\* C3 witness: a DELETE for an id no record has was answered 404.
C3_Witness ==
  /\ last.op = "DELETE"
  /\ last.status = 404
  /\ getClientById(last.id) = Null

\* A step in which the server answered a DELETE for a record that was soft-
\* deleted already.
RepeatDeleteStep ==
  /\ DeleteStep
  /\ \E i \in Named(last'.id) :
       clients[i].status_code = "deleted" /\ "deleted_at" \in DOMAIN clients[i]

\* C4 as claimed: a soft delete of a soft-deleted record succeeds and changes
\* nothing, deleted_at included.
C4_RepeatDeleteNoOp ==
  [][RepeatDeleteStep => last'.status = 204 /\ clients' = clients]_vars

\* C4 as amended: a soft delete of a soft-deleted record succeeds and changes
\* nothing but that record's deleted_at, which becomes the instant of the
\* repeated call (never an earlier one than it held).
C4_RepeatDeleteRefreshes ==
  [][RepeatDeleteStep =>
       /\ last'.status = 204
       /\ Len(clients') = Len(clients)
       /\ \A i \in 1..Len(clients) :
            IF i \in Named(last'.id)
            THEN /\ DOMAIN clients'[i] = DOMAIN clients[i]
                 /\ SameExcept(clients[i], clients'[i], {"deleted_at"})
                 /\ clients'[i].deleted_at = now'
                 /\ clients'[i].deleted_at >= clients[i].deleted_at
            ELSE clients'[i] = clients[i]]_vars

\* C4 witness: a DELETE of a soft-deleted record has been answered 204, at
\* an instant later than the record's last update.
C4_Witness ==
  /\ last.op = "DELETE"
  /\ last.repeat
  /\ last.status = 204
  /\ getClientById(last.id).status_code = "deleted"
  /\ getClientById(last.id).deleted_at > getClientById(last.id).updated_at

\* C5 as claimed: every successful mutation refreshes the record's
\* updated_at: a create or update stores the stamp its request carries, and
\* after a soft delete updated_at is not older than deleted_at.
C5_UpdatedAtRefreshed ==
  [][/\ DeleteStep =>
          \A i \in Named(last'.id) :
            clients'[i].updated_at >= clients'[i].deleted_at
     /\ (clients' # clients /\ last'.op \in {"POST", "PATCH"}) =>
          \A i \in 1..Len(clients') :
            clients'[i].id = last'.id => clients'[i].updated_at = net.body.updated_at
    ]_vars

\* C6: a record's created_at is the one first stored for it, whatever form
\* edits and soft deletes followed.
C6_CreatedAtKept ==
  \A i \in 1..Len(clients) :
    /\ clients[i].id \in DOMAIN createdAt0
    /\ clients[i].created_at = createdAt0[clients[i].id]

\* C6 witness: a record has been edited through the form after its creation
\* and soft-deleted.
C6_Witness ==
  \E i \in 1..Len(clients) :
    /\ clients[i].updated_at > clients[i].created_at
    /\ clients[i].status_code = "inactive"
    /\ "deleted_at" \in DOMAIN clients[i]

\* C7 as claimed: the record a successful create stores has created_at equal
\* to updated_at.
C7_CreateStampsEqual ==
  [][Len(clients') > Len(clients) =>
       clients'[Len(clients')].created_at = clients'[Len(clients')].updated_at]_vars

\* C8 as claimed: no two stored records share a non-empty email.
C8_NoSharedEmail ==
  \A i, j \in 1..Len(clients) :
    (i # j /\ clients[i].email # "") => clients[i].email # clients[j].email

C10_IdImmutable ==
  [][/\ Len(clients') >= Len(clients)
     /\ \A i \in 1..Len(clients) :
          /\ clients'[i].id = clients[i].id
          /\ clients'[i] # clients[i] =>
               /\ last'.op \in {"PATCH", "DELETE"}
               /\ last'.id = clients[i].id
    ]_vars

\* C10 witness: with two records stored, an update of a soft-deleted record
\* has been answered 200.
C10_Witness ==
  /\ Len(clients) = 2
  /\ last.op = "PATCH"
  /\ last.status = 200
  /\ "deleted_at" \in DOMAIN getClientById(last.id)

\* ------------------------------------------------- properties, continued

\* The fields the client input schema requires.
RequiredFields == {"first_name", "last_name", "date_of_birth", "status_code"}

\* A step in which the form sends a create or update request.
RequestIssued ==
  /\ net' # net
  /\ net' # Null
  /\ net'.kind \in {"POST", "PATCH"}

\* C11: a submit with first_name, last_name, date_of_birth or status_code
\* empty is rejected: no create or update request leaves the form while one
\* of them is empty, and the step that reports the missing-required-fields
\* error sends nothing, leaves the stored records as they were and ends with
\* the form not loading.
C11_RequiredRejected ==
  [][/\ RequestIssued =>
          \A k \in RequiredFields : formData[k] # "" /\ net'.body[k] # ""
     /\ (formError' = RequiredFieldsMessage /\ formError' # formError) =>
          /\ \E k \in RequiredFields : formData[k] = ""
          /\ net' = net
          /\ clients' = clients
          /\ isLoading' = FALSE
    ]_vars

\* C11 witness: a form with both names and the date of birth filled in and no
\* status has been submitted; it shows the missing-required-fields error and
\* no request is in flight.
C11_Witness ==
  /\ formError = RequiredFieldsMessage
  /\ formData.first_name # ""
  /\ formData.last_name # ""
  /\ formData.date_of_birth # ""
  /\ formData.status_code = ""
  /\ ~isLoading
  /\ net = Null

\* C12 as claimed: every stored record has a non-empty email or a non-empty
\* phone.
C12_ContactPresent ==
  \A i \in 1..Len(clients) : clients[i].email # "" \/ clients[i].phone # ""

\* C19 as claimed: a stored record has a deleted_at exactly when its
\* status_code is "deleted".
C19_DeletedAtIffDeleted ==
  \A i \in 1..Len(clients) :
    ("deleted_at" \in DOMAIN clients[i]) <=> (clients[i].status_code = "deleted")

\* A step in which a call of createClient or updateClient returned or threw.
SaveCall ==
  /\ ret' # ret
  /\ ret'.fn \in {"createClient", "updateClient"}

\* The data name a code that is not an entry of the reference data.
InvalidReference(data) ==
  \E k \in DOMAIN Catalog \cap DOMAIN data : data[k] \notin Catalog[k]

\* C13 as claimed: a create or update whose status_code,
\* primary_language_code, pronoun_code or sex names no entry of the
\* reference data is rejected and stores nothing.
C13_InvalidReferenceRejected ==
  [][(SaveCall /\ InvalidReference(ret'.data)) =>
       ret'.threw /\ clients' = clients]_vars

\* A step in which a call of updateClient was answered 200.
UpdateDone ==
  /\ calls' = calls + 1
  /\ ret'.fn = "updateClient"
  /\ ~ret'.threw

\* C14: a PATCH that supplies a subset of the fields replaces exactly those
\* fields of the named record and leaves its other fields, status_code,
\* email and deleted_at among them, and every other record as they were.
C14_PatchFrame ==
  [][UpdateDone =>
       /\ Len(clients') = Len(clients)
       /\ \A i \in 1..Len(clients) :
            IF clients[i].id = ret'.id
            THEN /\ DOMAIN clients'[i] = DOMAIN clients[i] \cup DOMAIN ret'.data
                 /\ \A k \in DOMAIN ret'.data : clients'[i][k] = ret'.data[k]
                 /\ SameExcept(clients[i], clients'[i], DOMAIN ret'.data)
            ELSE clients'[i] = clients[i]]_vars

\* C14 witness: a PATCH of the phone alone has been applied to a soft-deleted
\* record, which still has its status, email and deleted_at.
C14_Witness ==
  /\ ret.fn = "updateClient"
  /\ ~ret.threw
  /\ DOMAIN ret.data = {"phone"}
  /\ getClientById(ret.id).phone = ret.data.phone
  /\ getClientById(ret.id).status_code = "deleted"
  /\ getClientById(ret.id).email = SeedClient.email
  /\ "deleted_at" \in DOMAIN getClientById(ret.id)

\* A step in which the server applied the edit form's PATCH.
SaveApplied ==
  /\ net # Null
  /\ net.kind = "PATCH"
  /\ net' # Null
  /\ net'.kind = "RESP"
  /\ net'.status = 200

\* The form fields the user changed between the edit form's read and its save.
Edited(body) == {k \in FormFields : body[k] # loaded[k]}

\* The form fields of the record after the soft deletes that overlapped the
\* edit and then the edit: the user's changes over the record as stored.
DeleteThenUpdate(stored, body) ==
  [k \in FormFields |->
     IF k \in Edited(body) THEN body[k] ELSE clientDataForForm(stored)[k]]

\* The form fields of the record after the edit and then the soft deletes
\* that overlapped it.
UpdateThenDelete(body) ==
  [k \in FormFields |-> IF k = "status_code" THEN "deleted" ELSE body[k]]

\* C15 as claimed: when the edit form's load-then-save of a record and soft
\* deletes of it overlap, the record the save leaves in the store is the one
\* some serial order of the operations leaves.
C15_SaveSerialized ==
  [][SaveApplied =>
       \A i \in Named(net.id) :
         \/ clientDataForForm(clients'[i]) = DeleteThenUpdate(clients[i], net.body)
         \/ /\ clientDataForForm(clients[i]) # loaded
            /\ clientDataForForm(clients'[i]) = UpdateThenDelete(net.body)]_vars

\* The page size the API document gives a query: 50 when it names no limit
\* or 0, its limit otherwise, 200 at most.
DocumentedLimit(params) ==
  IF "_limit" \in DOMAIN params /\ params._limit # 0
  THEN Min(params._limit, 200)
  ELSE 50

\* The number of records on page `page` of `n` records, `limit` a page.
PageLength(n, page, limit) == Max(0, Min(limit, n - (page - 1) * limit))

\* C16 as claimed: an answered list request returns the records of a page of
\* 50 when its limit is missing or 0, and of its limit clamped to 200
\* otherwise: never more than that, and no fewer while records remain.
C16_DocumentedPageSize ==
  (ret.fn = "getClients" /\ ret.ok) =>
    Len(ret.value.data) =
      PageLength(Len(filtered(ret.params)), ret.params._page, DocumentedLimit(ret.params))

\* A step in which the detail page's fetch settled.
DetailSettled ==
  /\ detail # Null
  /\ detail.isLoading
  /\ detail' # Null
  /\ ~detail'.isLoading

\* A step in which the edit form's fetch settled.
EditSettled ==
  /\ net # Null
  /\ net.kind = "GET"
  /\ net' = Null

\* C17 as claimed: a fetch of an id no record has yields null, not an
\* exception, and the detail page then shows "Client not found." and the
\* edit form "Client not found for editing."; a fetch that failed otherwise
\* is shown as a fetch failure; a fetch of a stored client shows it.
C17_NotFoundShown ==
  [][/\ DetailSettled =>
          IF detail'.error = "Failed to fetch client details."
          THEN DetailPageView' = "Failed to fetch client details."
          ELSE IF getClientById(detail.id) = Null
               THEN /\ detail'.client = Null
                    /\ DetailPageView' = "Client not found."
               ELSE /\ detail'.client = getClientById(detail.id)
                    /\ DetailPageView' = "details"
     /\ EditSettled =>
          IF error' = "Failed to fetch client for editing."
          THEN FormPageView' = "Failed to fetch client for editing."
          ELSE IF getClientById(net.id) = Null
               THEN /\ error' = "Client not found for editing."
                    /\ FormPageView' = "Client not found for editing."
               ELSE /\ formData' = clientDataForForm(getClientById(net.id))
                    /\ FormPageView' = "form"
    ]_vars

\* C18: a deleteClient of the list page that was answered 204 or another 2xx
\* settles as a success (announced, the list fetched again); one answered
\* otherwise throws, and the page then shows the error, announces nothing,
\* starts no fetch and is not loading.
C18_DeleteFailureShown ==
  [][\A m \in deletes :
       (m.status # 0 /\ m \notin deletes') =>
         IF m.status \in 200..299
         THEN /\ listPage'.alert = "Client marked as deleted successfully."
              /\ [page |-> m.page, filter |-> m.filter] \in fetches'
         ELSE /\ listPage'.error # ""
              /\ listPage'.alert = ""
              /\ fetches' = fetches
              /\ ~listPage'.isLoading
    ]_vars

\* C18 witness: a deleteClient of the list page was answered with an error
\* and has settled: the error is shown, the client is not deleted.
C18_Witness ==
  /\ listPage # Null
  /\ listPage.error = "HTTP error!"
  /\ listPage.alert = ""
  /\ ~listPage.isLoading
  /\ listPage.clients # <<>>
  /\ deletes = {}
  /\ fetches = {}
  /\ \A i \in 1..Len(clients) : clients[i].status_code # "deleted"

\* C20 as claimed: once the list page shows the answered fetch of its
\* current page and filter, with nothing in flight, the current page is
\* between 1 and the number of pages (1 when there is none).
C20_PageInRange ==
  (/\ listPage # Null
   /\ fetches = {}
   /\ deletes = {}
   /\ listPage.from = [page |-> listPage.currentPage,
                       filter |-> listPage.statusFilter, ok |-> TRUE]) =>
    /\ 1 <= listPage.currentPage
    /\ listPage.currentPage <= Max(1, totalPages)

\* The list page is at rest: every fetch and every delete it started has
\* settled.
ListSettled ==
  /\ listPage # Null
  /\ fetches = {}
  /\ deletes = {}

\* C21 as claimed: once every fetch of the list page has settled, the rows
\* and the total it shows are those of a response to the request for the
\* page and status filter selected last, not those of a superseded request.
C21_LatestFetchShown ==
  ListSettled =>
    \E ok \in BOOLEAN :
      LET answer == getClientsResult(fetchParams(listPage.currentPage,
                                                 listPage.statusFilter), ok) IN
        /\ listPage.clients = answer.data
        /\ listPage.totalClients = answer.totalCount

\* C22 as claimed: when the list request that settled last has failed, the
\* list page shows "Failed to fetch clients. Please try again." and does not
\* present the failure as an empty result with a total of 0.
C22_FetchFailureShown ==
  (ListSettled /\ listPage.from.page # 0 /\ ~listPage.from.ok) =>
    /\ "Failed to fetch clients. Please try again." \in ListPageTexts
    /\ ~("No clients found." \in ListPageTexts /\ listPage.totalClients = 0)

====
